---- MODULE Spec2Model ----
(***************************************************************************)
(* State-machine model of the quick-open modal,                            *)
(* src/src/components/QuickOpenModal.js: its props, its state (results,    *)
(* selectedIndex), its lifecycle callbacks and its event handlers.         *)
(*                                                                         *)
(* Strings that the code inspects character by character (the query, the  *)
(* "value" of a result item) are sequences of one-character strings.       *)
(* Identifiers that the code only compares (ids, urls) are TLA+ strings.   *)
(*                                                                         *)
(* React delivers one event at a time. A handler reads the props of the    *)
(* render that delivered the event; the props its callbacks produce reach  *)
(* the component with the next render, whose componentDidUpdate runs       *)
(* before any further event (pc = "update"). The setState calls of         *)
(* componentDidUpdate cause one more componentDidUpdate with unchanged     *)
(* props, which changes nothing and is not modelled.                       *)
(*                                                                         *)
(* The parser worker's entry point, src/unnamed/part_000, is a second      *)
(* program in its own execution context: the table of the operations it    *)
(* serves and the messages it answers (SpecWorker).                        *)
(***************************************************************************)
EXTENDS Integers, Sequences, FiniteSets, TLC

VARIABLES
    enabled,        \* props.enabled
    query,          \* props.query
    searchType,     \* props.searchType
    sources,        \* props.sources
    tabs,           \* props.tabs
    selectedSource, \* props.selectedSource
    symbols,        \* props.symbols
    results,        \* state.results
    selectedIndex,  \* state.selectedIndex
    prevProps,      \* the props of the previous render, as componentDidUpdate sees them
    pc,             \* "mount": constructed; "update": a componentDidUpdate is due; "idle"
    last,           \* the last event delivered to the component, with the state it found
    calls,          \* the host callbacks that event invoked, in order
    inbox,          \* worker: the messages posted to the worker, in order
    outbox          \* worker: the replies the worker has posted, in order

modalVars == <<enabled, query, searchType, sources, tabs, selectedSource, symbols,
               results, selectedIndex, prevProps, pc, last, calls>>
workerVars == <<inbox, outbox>>
vars == <<modalVars, workerVars>>

-----------------------------------------------------------------------------
(* Bounds of the model *)

\* The short source lists have 0..SmallSources entries.
SmallSources == 3
\* The long source list exceeds the cap of showTopSources by this many entries.
ExtraSources == 2
\* The worker is posted at most this many messages.
MaxMessages == 2

-----------------------------------------------------------------------------
(* JavaScript values *)

\* NaN, the result of `% 0` in traverseResults. Every number the component
\* computes is >= -1.
NaN == -3
\* undefined / null in a numeric field (line, column, start, end).
Undef == -2

\* sources.slice(0, 100)
TopSourcesCap == 100
\* fuzzyAldrin.filter(..., { maxResults: 1000 })
MaxResults == 1000

Min(a, b) == IF a < b THEN a ELSE b

\* Array.prototype.slice(0, n)
Slice0(s, n) == SubSeq(s, 1, Min(n, Len(s)))

\* String.prototype.slice(1)
Slice1(s) == SubSeq(s, 2, Len(s))

\* array[i] for a JavaScript index i: i is NaN or past the end => undefined
HasIndex(s, i) == i >= 0 /\ i < Len(s)
At(s, i) == s[i + 1]

Digits == <<"0", "1", "2", "3", "4", "5", "6", "7", "8", "9">>
IsDigit(c) == \E d \in 1..Len(Digits) : Digits[d] = c
DigitValue(c) == (CHOOSE d \in 1..Len(Digits) : Digits[d] = c) - 1
IsWordChar(c) == c \in {"a", "b", "z"} \/ IsDigit(c)

\* parseInt(s, 10) of an unsigned string; Undef stands for "s is undefined".
RECURSIVE ParseDigits(_, _)
ParseDigits(s, acc) ==
    IF s = <<>> \/ ~IsDigit(Head(s)) THEN acc
    ELSE ParseDigits(Tail(s), 10 * acc + DigitValue(Head(s)))

ParseInt(s) ==
    IF s = <<>> \/ ~IsDigit(Head(s)) THEN NaN ELSE ParseDigits(s, 0)

\* String.prototype.split(":")
RECURSIVE SplitColon(_, _)
SplitColon(s, cur) ==
    IF s = <<>> THEN <<cur>>
    ELSE IF Head(s) = ":" THEN <<cur>> \o SplitColon(Tail(s), <<>>)
    ELSE SplitColon(Tail(s), Append(cur, Head(s)))

Split(s) == SplitColon(s, <<>>)

-----------------------------------------------------------------------------
(* Result items and the host's data *)

NoLocation == [has |-> FALSE, start |-> Undef, end |-> Undef]
Location(s, e) == [has |-> TRUE, start |-> s, end |-> e]

\* QuickOpenResult: { id, value, url?, location? }
Item(id, value, url, location) ==
    [id |-> id, value |-> value, url |-> url, location |-> location]

SourceValue(i) ==
    IF i % 3 = 1 THEN <<"a", "b">> ELSE IF i % 3 = 2 THEN <<"a">> ELSE <<"b">>

\* props.sources: n formatted sources, the i-th with id "s<i>" and url "u<i>"
SourceList(n) ==
    [i \in 1..n |-> Item("s" \o ToString(i), SourceValue(i), "u" \o ToString(i), NoLocation)]

SourceCounts == {0, SmallSources}

\* The source lists that reach past the cap of showTopSources
LongSourceCounts == {TopSourcesCap, TopSourcesCap + ExtraSources}

\* props.tabs: urls of the open tabs, in tab order ("u0" is the url of no source)
TabLists == {<<>>, <<"u3", "u1">>, <<"u0">>}

\* A tab for every one of n sources, the last source's tab first
AllTabs(n) == [i \in 1..n |-> "u" \o ToString(n + 1 - i)]

\* props.selectedSource: null, or a record with an id and possibly its text
NoSource == [isNull |-> TRUE, id |-> "", text |-> FALSE]
Source(id, text) == [isNull |-> FALSE, id |-> id, text |-> text]
SelectedSources == {NoSource, Source("s1", TRUE), Source("s1", FALSE)}

\* props.symbols: { functions, variables } of the selected source
EmptySymbols == [functions |-> <<>>, variables |-> <<>>]
LoadedSymbols ==
    [functions |-> << Item("f:1", <<"a">>, "", Location(1, 3)),
                      Item("g:5", <<"a", "b">>, "", Location(5, 9)),
                      Item("h:12", <<"b">>, "", Location(12, 12)) >>,
     variables |-> << Item("x:2", <<"a">>, "", Location(2, 2)),
                      Item("y:0", <<"b">>, "", NoLocation) >>]

\* mapStateToProps: no selected source => the symbols of nothing
SymbolsFor(src) ==
    IF src.isNull \/ ~src.text THEN {EmptySymbols} ELSE {EmptySymbols, LoadedSymbols}

\* The query strings the user can produce
Queries ==
    { <<>>, <<"@">>, <<"#">>, <<":">>, <<"?">>,
      <<"a">>, <<"b">>, <<"z">>,
      <<"@", "a">>, <<"#", "b">>, <<"?", "a">>,
      <<":", "7">>, <<":", "1", "2", ":", "0">>, <<":", "3", ":", "4">>,
      <<"a", ":">>, <<"a", ":", "5", ":", "0">>, <<"b", ":", "6", ":", "1">> }

\* One query of each search type, for the runs over long source lists
TopQueries ==
    { <<>>, <<"@">>, <<"#", "b">>, <<":", "7">>, <<"?">>, <<"a">>, <<"a", ":">> }

\* formatShortcutResults(): the three shortcut rows
formatShortcutResults ==
    << Item("@", <<"a">>, "", NoLocation),
       Item("#", <<"a", "b">>, "", NoLocation),
       Item(":", <<"b">>, "", NoLocation) >>

\* The reducer's classification of a query by its leading sigil
RECURSIVE WordThenColon(_, _)
WordThenColon(q, n) ==
    IF q = <<>> THEN FALSE
    ELSE IF Head(q) = ":" THEN n > 0
    ELSE IF IsWordChar(Head(q)) THEN WordThenColon(Tail(q), n + 1)
    ELSE FALSE

parseQuickOpenQuery(q) ==
    IF q # <<>> /\ Head(q) = "@" THEN "functions"
    ELSE IF q # <<>> /\ Head(q) = "#" THEN "variables"
    ELSE IF q # <<>> /\ Head(q) = ":" THEN "goto"
    ELSE IF q # <<>> /\ Head(q) = "?" THEN "shortcuts"
    ELSE IF WordThenColon(q, 0) THEN "gotoSource"
    ELSE "sources"

\* parseLineColumn(query): undefined (has = FALSE) unless a line number follows
\* the first ":"; the column is Undef unless a number follows the second ":".
parseLineColumn(q) ==
    LET parts == Split(q)
        line == IF Len(parts) >= 2 THEN ParseInt(parts[2]) ELSE NaN
        column == IF Len(parts) >= 3 THEN ParseInt(parts[3]) ELSE NaN
    IN  IF line # NaN
        THEN [has |-> TRUE, line |-> line,
              column |-> IF column # NaN THEN column ELSE Undef]
        ELSE [has |-> FALSE, line |-> Undef, column |-> Undef]

-----------------------------------------------------------------------------
(* fuzzaldrin-plus: the candidates whose value holds the query's characters *)
(* in order. An empty query matches nothing. The library's ranking of the  *)
(* matches is not modelled: matches keep the order of the candidates.       *)

RECURSIVE IsSubsequence(_, _)
IsSubsequence(q, v) ==
    IF q = <<>> THEN TRUE
    ELSE IF v = <<>> THEN FALSE
    ELSE IF Head(q) = Head(v) THEN IsSubsequence(Tail(q), Tail(v))
    ELSE IsSubsequence(q, Tail(v))

Matches(q, item) == IsSubsequence(q, item.value)

filter(values, q) ==
    IF q = <<>> \/ values = <<>> THEN <<>>
    ELSE Slice0(SelectSeq(values, LAMBDA item : Matches(q, item)), MaxResults)

-----------------------------------------------------------------------------
(* The component: src/src/components/QuickOpenModal.js *)

\* state.results is null or an array
Null == [null |-> TRUE, items |-> <<>>]
Results(list) == [null |-> FALSE, items |-> list]

\* The host callbacks, as the records of the call log. A query is a sequence
\* of characters, so the one-character id "@" is the query <<"@">>.
SelectLocationCall(sourceId, line, column) == <<"selectLocation", sourceId, line, column>>
HighlightLineRangeCall(start, end, sourceId) == <<"highlightLineRange", start, end, sourceId>>
SetQuickOpenQueryCall(q) == <<"setQuickOpenQuery", q>>
CloseQuickOpenCall == <<"closeQuickOpen">>
\* A handler that dereferences undefined ends with an uncaught TypeError
TypeError == <<"TypeError">>

\* Query helpers
isFunctionQuery(P) == P.searchType = "functions"
isVariableQuery(P) == P.searchType = "variables"
isSymbolSearch(P) == isFunctionQuery(P) \/ isVariableQuery(P)
isGotoQuery(P) == P.searchType = "goto"
isGotoSourceQuery(P) == P.searchType = "gotoSource"
isShortcutQuery(P) == P.searchType = "shortcuts"

closeModal == <<CloseQuickOpenCall>>

searchSources(P, q) ==
    IF q = <<>> THEN Results(P.sources)
    ELSE IF isGotoSourceQuery(P) THEN Results(filter(P.sources, Split(q)[1]))
    ELSE Results(filter(P.sources, q))

\* Mutant of searchSymbols: the bare sigil is filtered like any other query
searchSymbolsAlwaysFiltered(P, q) ==
    LET list == IF isVariableQuery(P) THEN P.symbols.variables
                ELSE P.symbols.functions
    IN  Results(filter(list, q))

searchSymbols(P, q) ==
    LET list == IF isVariableQuery(P) THEN P.symbols.variables
                ELSE P.symbols.functions
    IN  IF q = <<"@">> \/ q = <<"#">> THEN Results(list)
        ELSE Results(filter(list, Slice1(q)))

searchShortcuts(P, q) ==
    IF q = <<"?">> THEN Results(formatShortcutResults)
    ELSE Results(filter(formatShortcutResults, Slice1(q)))

Includes(list, x) == \E i \in 1..Len(list) : list[i] = x

\* Mutant of showTopSources: the cap of the no-tab branch applied to the tab branch too
showTopSourcesCapped(P) ==
    IF Len(P.tabs) > 0
    THEN Results(Slice0(SelectSeq(P.sources, LAMBDA source : Includes(P.tabs, source.url)),
                        TopSourcesCap))
    ELSE Results(Slice0(P.sources, TopSourcesCap))

showTopSources(P) ==
    IF Len(P.tabs) > 0
    THEN Results(SelectSeq(P.sources, LAMBDA source : Includes(P.tabs, source.url)))
    ELSE Results(Slice0(P.sources, TopSourcesCap))

\* Mutant of updateResults: the empty query is not diverted to showTopSources
updateResultsNoTop(P, S, q) ==
    IF isGotoQuery(P) THEN S
    ELSE IF isSymbolSearch(P) THEN [S EXCEPT !.results = searchSymbols(P, q)]
    ELSE IF isShortcutQuery(P) THEN [S EXCEPT !.results = searchShortcuts(P, q)]
    ELSE [S EXCEPT !.results = searchSources(P, q)]

\* updateResults(query) under props P, from state S: the new state. Every
\* branch that sets state sets `results` alone.
updateResults(P, S, q) ==
    IF isGotoQuery(P) THEN S
    ELSE IF q = <<>> THEN [S EXCEPT !.results = showTopSources(P)]
    ELSE IF isSymbolSearch(P) THEN [S EXCEPT !.results = searchSymbols(P, q)]
    ELSE IF isShortcutQuery(P) THEN [S EXCEPT !.results = searchShortcuts(P, q)]
    ELSE [S EXCEPT !.results = searchSources(P, q)]

\* results[i]: an item, or undefined
Undefined == [def |-> FALSE, item |-> Item("", <<>>, "", NoLocation)]
Defined(item) == [def |-> TRUE, item |-> item]
ItemAt(res, i) == IF HasIndex(res.items, i) THEN Defined(At(res.items, i)) ELSE Undefined

\* Mutant of setModifier: the modal is closed after the query is re-seeded
setModifierThenClose(x) ==
    IF ~x.def THEN <<TypeError>>
    ELSE IF x.item.id \in {"@", "#", ":"}
    THEN <<SetQuickOpenQueryCall(<<x.item.id>>), CloseQuickOpenCall>>
    ELSE <<>>

setModifier(x) ==
    IF ~x.def THEN <<TypeError>>
    ELSE IF x.item.id \in {"@", "#", ":"} THEN <<SetQuickOpenQueryCall(<<x.item.id>>)>>
    ELSE <<>>

\* gotoLocation(location): location is undefined (has = FALSE) or carries a
\* sourceId ("" when absent), a line and a column (Undef when absent).
GotoLocation(has, sourceId, line, column) ==
    [has |-> has, sourceId |-> sourceId, line |-> line, column |-> column]

gotoLocation(P, location) ==
    LET selectedSourceId == IF ~P.selectedSource.isNull THEN P.selectedSource.id ELSE ""
        sourceId == IF location.sourceId # "" THEN location.sourceId ELSE selectedSourceId
        column == IF location.column # Undef /\ location.column # 0
                  THEN location.column ELSE Undef
    IN  IF location.has
        THEN <<SelectLocationCall(sourceId, location.line, column)>> \o closeModal
        ELSE <<>>

StartLine(item) == IF item.location.has THEN item.location.start ELSE 0

selectResultItem(P, x) ==
    IF ~x.def THEN <<>>
    ELSE IF isShortcutQuery(P) THEN setModifier(x)
    ELSE IF isGotoSourceQuery(P)
    THEN LET location == parseLineColumn(P.query)
         IN  gotoLocation(P, GotoLocation(TRUE, x.item.id, location.line, location.column))
    ELSE IF isSymbolSearch(P)
    THEN gotoLocation(P, GotoLocation(TRUE, "", StartLine(x.item), Undef))
    ELSE gotoLocation(P, GotoLocation(TRUE, x.item.id, 0, Undef))

onSelectResultItem(P, x) ==
    IF ~isSymbolSearch(P) \/ P.selectedSource.isNull THEN <<>>
    ELSE IF ~x.def THEN <<TypeError>>
    ELSE IF isVariableQuery(P)
    THEN <<SelectLocationCall(P.selectedSource.id, StartLine(x.item), Undef)>>
    ELSE <<HighlightLineRangeCall(x.item.location.start, x.item.location.end,
                                  P.selectedSource.id)>>

getResultCount(S) ==
    IF ~S.results.null /\ Len(S.results.items) # 0 THEN Len(S.results.items) ELSE 0

\* a % b in JavaScript: NaN for b = 0, else the remainder with the sign of a
Rem(a, b) ==
    IF a = NaN \/ b = 0 THEN NaN
    ELSE IF a >= 0 THEN a % b ELSE 0 - ((0 - a) % b)

\* selectedIndex + direction, NaN + direction being NaN
Plus(a, b) == IF a = NaN THEN NaN ELSE a + b

\* Mutant of NextIndex: the remainder is taken without adding resultCount first
NextIndexNoWrap(current, direction, resultCount) ==
    Rem(Plus(current, direction), resultCount)

\* const index = selectedIndex + direction;
\* const nextIndex = (index + resultCount) % resultCount;
NextIndex(current, direction, resultCount) ==
    Rem(Plus(Plus(current, direction), resultCount), resultCount)

Direction(key) == IF key = "ArrowUp" THEN -1 ELSE 1

\* A handler's outcome: the new state and the callbacks it invoked
Outcome(S, cs) == [state |-> S, calls |-> cs]

traverseResults(P, S, key) ==
    LET nextIndex == NextIndex(S.selectedIndex, Direction(key), getResultCount(S))
    IN  Outcome([S EXCEPT !.selectedIndex = nextIndex],
                IF ~S.results.null
                THEN onSelectResultItem(P, ItemAt(S.results, nextIndex))
                ELSE <<>>)

onKeyDown(P, S, key) ==
    IF ~isGotoQuery(P) /\ (~P.enabled \/ S.results.null) THEN Outcome(S, <<>>)
    ELSE IF key = "Enter" /\ isGotoQuery(P)
    THEN LET location == parseLineColumn(P.query)
         IN  Outcome(S, gotoLocation(P, GotoLocation(location.has, "", location.line,
                                                     location.column)))
    ELSE IF key = "Enter" /\ ~S.results.null
    THEN IF isShortcutQuery(P)
         THEN Outcome(S, setModifier(ItemAt(S.results, S.selectedIndex)))
         ELSE Outcome(S, selectResultItem(P, ItemAt(S.results, S.selectedIndex)))
    ELSE IF key = "Tab" THEN Outcome(S, closeModal)
    ELSE IF key \in {"ArrowUp", "ArrowDown"} THEN traverseResults(P, S, key)
    ELSE Outcome(S, <<>>)

\* Mutant of onChange: a symbol search without a usable source still searches
onChangeAlwaysSearching(P, S, value) ==
    IF isGotoQuery(P) THEN Outcome(S, <<SetQuickOpenQueryCall(value)>>)
    ELSE Outcome(updateResults(P, S, value), <<SetQuickOpenQueryCall(value)>>)

\* Mutant of onChange: the item under the selection is announced to the host
\* after every edit, as arrow-key traversal does
onChangeSelecting(P, S, value) ==
    LET noSource == P.selectedSource.isNull \/ ~P.selectedSource.text
        S2 == IF (isSymbolSearch(P) /\ noSource) \/ isGotoQuery(P) THEN S
              ELSE updateResults(P, S, value)
    IN  Outcome(S2, <<SetQuickOpenQueryCall(value)>>
                      \o onSelectResultItem(P, ItemAt(S2.results, S2.selectedIndex)))

\* onChange(e), e.target.value = value: the props it reads are those of the
\* render that delivered the event, not those setQuickOpenQuery produces.
onChange(P, S, value) ==
    LET noSource == P.selectedSource.isNull \/ ~P.selectedSource.text
    IN  IF (isSymbolSearch(P) /\ noSource) \/ isGotoQuery(P)
        THEN Outcome(S, <<SetQuickOpenQueryCall(value)>>)
        ELSE Outcome(updateResults(P, S, value), <<SetQuickOpenQueryCall(value)>>)

\* Mutant of componentDidMount: the first result list is not computed
componentDidMountSkipped(P, S) == S

componentDidMount(P, S) == updateResults(P, S, P.query)

\* Mutant of componentDidUpdate: a changed query alone recomputes nothing
componentDidUpdateOnEnableOnly(prev, P, S) ==
    LET nowEnabled == ~prev.enabled /\ P.enabled
    IN  IF nowEnabled THEN updateResults(P, S, P.query) ELSE S

componentDidUpdate(prev, P, S) ==
    LET nowEnabled == ~prev.enabled /\ P.enabled
        queryChanged == prev.query # P.query
    IN  IF nowEnabled \/ queryChanged THEN updateResults(P, S, P.query) ELSE S

-----------------------------------------------------------------------------
(* The host: the store behind the props, and React's scheduling *)

Props ==
    [enabled |-> enabled, query |-> query, searchType |-> searchType,
     sources |-> sources, tabs |-> tabs, selectedSource |-> selectedSource,
     symbols |-> symbols]

State == [results |-> results, selectedIndex |-> selectedIndex]

\* The store's reaction to one callback: setQuickOpenQuery stores the query and
\* its classification, closeQuickOpen resets the quick-open state.
Reduce(P, call) ==
    IF call[1] = "setQuickOpenQuery"
    THEN [P EXCEPT !.query = call[2], !.searchType = parseQuickOpenQuery(call[2])]
    ELSE IF call[1] = "closeQuickOpen"
    THEN [P EXCEPT !.enabled = FALSE, !.query = <<>>, !.searchType = "sources"]
    ELSE P

RECURSIVE ReduceAll(_, _)
ReduceAll(P, cs) == IF cs = <<>> THEN P ELSE ReduceAll(Reduce(P, Head(cs)), Tail(cs))

\* An event, with what it found: the selected index, the number of results
\* (Undef when results is null), the query and the search type
Event(op, arg) ==
    [op |-> op, arg |-> arg, selectedIndex |-> selectedIndex,
     count |-> IF results.null THEN Undef ELSE Len(results.items),
     query |-> query, searchType |-> searchType]

PrevProps == [enabled |-> enabled, query |-> query]

\* An event handler ran with outcome `out`: the state and the props the next
\* render has; a componentDidUpdate is due when the props changed.
Deliver(op, arg, out) ==
    LET P == ReduceAll(Props, out.calls)
    IN  /\ results' = out.state.results
        /\ selectedIndex' = out.state.selectedIndex
        /\ enabled' = P.enabled
        /\ query' = P.query
        /\ searchType' = P.searchType
        /\ calls' = out.calls
        /\ last' = Event(op, arg)
        /\ prevProps' = PrevProps
        /\ pc' = IF P # Props THEN "update" ELSE "idle"
        /\ UNCHANGED <<sources, tabs, selectedSource, symbols, workerVars>>

\* The component as constructed, with the props of its first render
Constructed(queries, sourceLists, tabLists) ==
    /\ enabled \in BOOLEAN
    /\ query \in queries
    /\ searchType = parseQuickOpenQuery(query)
    /\ sources \in sourceLists
    /\ tabs \in tabLists
    /\ selectedSource \in SelectedSources
    /\ symbols \in SymbolsFor(selectedSource)
    /\ results = Null
    /\ selectedIndex = 0
    /\ prevProps = PrevProps
    /\ pc = "mount"
    /\ last = Event("constructor", "")
    /\ calls = <<>>
    /\ inbox = <<>>
    /\ outbox = <<>>

Init == Constructed(Queries, {SourceList(n) : n \in SourceCounts}, TabLists)

ComponentDidMount ==
    /\ pc = "mount"
    /\ LET S == componentDidMount(Props, State)
       IN  /\ results' = S.results
           /\ selectedIndex' = S.selectedIndex
    /\ pc' = "idle"
    /\ UNCHANGED <<enabled, query, searchType, sources, tabs, selectedSource, symbols,
                   prevProps, last, calls, workerVars>>

ComponentDidUpdate ==
    /\ pc = "update"
    /\ LET S == componentDidUpdate(prevProps, Props, State)
       IN  /\ results' = S.results
           /\ selectedIndex' = S.selectedIndex
    /\ prevProps' = PrevProps
    /\ pc' = "idle"
    /\ UNCHANGED <<enabled, query, searchType, sources, tabs, selectedSource, symbols,
                   last, calls, workerVars>>

Keys == {"Enter", "Tab", "ArrowUp", "ArrowDown", "Escape"}

\* A keydown in the search input, which render() shows only when enabled
KeyDown(key) ==
    /\ pc = "idle"
    /\ enabled
    /\ Deliver("onKeyDown", key, onKeyDown(Props, State, key))

\* The user edits the search input
Change(value) ==
    /\ pc = "idle"
    /\ enabled
    /\ value # query
    /\ Deliver("onChange", value, onChange(Props, State, value))

\* A click on row i of the rendered list, results.slice(0, 100)
Click(i) ==
    /\ pc = "idle"
    /\ enabled
    /\ ~results.null
    /\ i < Min(Len(results.items), TopSourcesCap)
    /\ Deliver("selectItem", i, Outcome(State, selectResultItem(Props, ItemAt(results, i))))

\* The modal's handleClose (a click outside it)
HandleClose ==
    /\ pc = "idle"
    /\ enabled
    /\ Deliver("handleClose", "", Outcome(State, closeModal))

\* The host opens the modal, with a query or with the stored one
OpenQuickOpen(q) ==
    /\ pc = "idle"
    /\ ~enabled
    /\ enabled' = TRUE
    /\ query' = q
    /\ searchType' = parseQuickOpenQuery(q)
    /\ prevProps' = PrevProps
    /\ pc' = "update"
    /\ last' = Event("openQuickOpen", q)
    /\ calls' = <<>>
    /\ UNCHANGED <<sources, tabs, selectedSource, symbols, results, selectedIndex,
                   workerVars>>

\* The host selects another source, or the selected source's text or symbols load
SelectSource(src, syms) ==
    /\ pc = "idle"
    /\ <<src, syms>> # <<selectedSource, symbols>>
    /\ selectedSource' = src
    /\ symbols' = syms
    /\ prevProps' = PrevProps
    /\ pc' = "update"
    /\ last' = Event("selectSource", "")
    /\ calls' = <<>>
    /\ UNCHANGED <<enabled, query, searchType, sources, tabs, results, selectedIndex,
                   workerVars>>

Next ==
    \/ ComponentDidMount
    \/ ComponentDidUpdate
    \/ \E key \in Keys : KeyDown(key)
    \/ \E value \in Queries : Change(value)
    \/ \E i \in 0..(TopSourcesCap - 1) : Click(i)
    \/ HandleClose
    \/ \E q \in Queries : OpenQuickOpen(q)
    \/ \E src \in SelectedSources : \E syms \in SymbolsFor(src) : SelectSource(src, syms)

Spec == Init /\ [][Next]_vars

\* The same component over long source lists. traverseResults and a click
\* write selectedIndex and the call log alone, never results, so the result
\* lists of this specification are those of every run with them.
InitTop ==
    /\ Constructed(TopQueries, {SourceList(n) : n \in LongSourceCounts},
                   {<<>>, <<"u3", "u1">>} \cup {AllTabs(n) : n \in LongSourceCounts})
    /\ Len(tabs) \in {0, 2, Len(sources)}

NextTop ==
    \/ ComponentDidMount
    \/ ComponentDidUpdate
    \/ \E key \in Keys \ {"ArrowUp", "ArrowDown"} : KeyDown(key)
    \/ \E value \in TopQueries : Change(value)
    \/ HandleClose
    \/ \E q \in TopQueries : OpenQuickOpen(q)
    \/ \E src \in SelectedSources : \E syms \in SymbolsFor(src) : SelectSource(src, syms)

SpecTop == InitTop /\ [][NextTop]_vars

-----------------------------------------------------------------------------
(* The parser worker: src/unnamed/part_000 *)

\* An import declaration: the module-scope binding `local` is the export
\* `export` ("default" for a default import) of the module `from`
Import(local, from, export) == [local |-> local, from |-> from, export |-> export]

ImportDeclarations ==
    {Import("replaceOriginalVariableName", "devtools-map-bindings/src/utils",
            "replaceOriginalVariableName"),
     Import("getClosestExpression", "./utils/closest", "getClosestExpression"),
     Import("getVariablesInScope", "./scopes", "getVariablesInScope"),
     Import("getSymbols", "./getSymbols", "default"),
     Import("clearSymbols", "./getSymbols", "clearSymbols"),
     Import("clearASTs", "./utils/ast", "clearASTs"),
     Import("getScopes", "./getScopes", "default"),
     Import("clearScopes", "./getScopes", "clearScopes"),
     Import("hasSource", "./sources", "hasSource"),
     Import("setSource", "./sources", "setSource"),
     Import("clearSources", "./sources", "clearSources"),
     Import("findOutOfScopeLocations", "./findOutOfScopeLocations", "default"),
     Import("getNextStep", "./steps", "getNextStep"),
     Import("getEmptyLines", "./getEmptyLines", "default"),
     Import("hasSyntaxError", "./validate", "hasSyntaxError"),
     Import("isReactComponent", "./frameworks", "isReactComponent")}

\* The value of the identifier n in the module's scope
Binding(n) == CHOOSE d \in ImportDeclarations : d.local = n

\* The shorthand properties of the object literal passed to workerHandler
ShorthandProperties ==
    {"getClosestExpression", "findOutOfScopeLocations", "getSymbols", "getScopes",
     "clearSymbols", "clearScopes", "clearASTs", "hasSource", "setSource",
     "clearSources", "getVariablesInScope", "getNextStep", "getEmptyLines",
     "hasSyntaxError", "isReactComponent", "replaceOriginalVariableName"}

\* Mutant of publicInterface: the key getScopes is bound to getSymbols
publicInterfaceCrossed ==
    [n \in ShorthandProperties |->
        IF n = "getScopes" THEN Binding("getSymbols") ELSE Binding(n)]

\* The object literal: the shorthand property n is n: n
publicInterface == [n \in ShorthandProperties |-> Binding(n)]

\* The methods a client asks for: the registered ones and two that are not
Methods == ShorthandProperties \cup {"getFunctions", "getsymbols"}

Message(id, method) == [id |-> id, method |-> method]
\* A reply carries the response of the handler that was applied, or the error
Response(id, handler) == [id |-> id, error |-> FALSE, handler |-> handler]
Failure(id) == [id |-> id, error |-> TRUE, handler |-> Import("", "", "")]

\* workerHandler(table)(msg): table[method] is applied to the arguments and
\* its response posted under the message's id; applying a missing entry
\* throws, and the error is posted instead.
workerHandler(table, msg) ==
    IF msg.method \in DOMAIN table THEN Response(msg.id, table[msg.method])
    ELSE Failure(msg.id)

\* A client posts a message to the worker
PostMessage(method) ==
    /\ Len(inbox) < MaxMessages
    /\ inbox' = Append(inbox, Message(Len(inbox) + 1, method))
    /\ UNCHANGED <<outbox, modalVars>>

\* self.onmessage: the worker takes the oldest unanswered message
OnMessage ==
    /\ Len(outbox) < Len(inbox)
    /\ outbox' = Append(outbox, workerHandler(publicInterface, inbox[Len(outbox) + 1]))
    /\ UNCHANGED <<inbox, modalVars>>

\* The worker alone: the modal is a closed one in another context
InitWorker ==
    /\ Constructed({<<>>}, {SourceList(0)}, {<<>>})
    /\ ~enabled
    /\ selectedSource = NoSource

NextWorker ==
    \/ \E method \in Methods : PostMessage(method)
    \/ OnMessage

SpecWorker == InitWorker /\ [][NextWorker]_vars

-----------------------------------------------------------------------------
(* Events, as the claims speak of them *)

Arrows == {"ArrowUp", "ArrowDown"}
IsKey(e, keys) == e.op = "onKeyDown" /\ e.arg \in keys

\* C1: whenever results is non-null and non-empty, selectedIndex is a valid
\* index into it (0 <= selectedIndex < results.length).
C1_SelectedIndexValid ==
    (pc = "idle" /\ ~results.null /\ Len(results.items) > 0)
        => (selectedIndex >= 0 /\ selectedIndex < Len(results.items))

\* C2: once a query change, a mode change or a re-enabling of the modal has
\* recomputed the result list, selectedIndex is 0.
C2_IndexResetOnRecompute ==
    (pc = "idle" /\ last.op \in {"onChange", "openQuickOpen"} /\ searchType # "goto")
        => selectedIndex = 0

\* C3: over a non-empty result list of size count, from a selectedIndex in
\* 0..count-1, ArrowDown stores (selectedIndex + 1) mod count and ArrowUp
\* stores (selectedIndex - 1) mod count.
C3_ArrowWraps ==
    (/\ IsKey(last, Arrows)
     /\ last.count > 0
     /\ last.selectedIndex \in 0..(last.count - 1))
        => selectedIndex = IF last.arg = "ArrowDown"
                           THEN (last.selectedIndex + 1) % last.count
                           ELSE (last.selectedIndex - 1) % last.count

\* C3 witness: ArrowUp at index 0 of a list of two or more wrapped to count-1.
C3_Witness ==
    /\ IsKey(last, {"ArrowUp"})
    /\ last.count >= 2
    /\ last.selectedIndex = 0
    /\ selectedIndex = last.count - 1

\* C4: with results null, an arrow key changes neither results nor
\* selectedIndex and invokes no host callback, in every search mode.
C4_ArrowNoopWhenNull ==
    (IsKey(last, Arrows) /\ last.count = Undef)
        => (results.null /\ selectedIndex = last.selectedIndex /\ calls = <<>>)

\* C5: Enter in goto-line mode, when the query parses to a location, calls
\* selectLocation with the parsed line and column and then closeQuickOpen,
\* whatever results and selectedIndex are.
C5_GotoEnter ==
    (/\ IsKey(last, {"Enter"})
     /\ last.searchType = "goto"
     /\ parseLineColumn(last.query).has)
        => /\ Len(calls) = 2
           /\ calls[1][1] = "selectLocation"
           /\ calls[1][3] = parseLineColumn(last.query).line
           /\ calls[1][4] = parseLineColumn(last.query).column
           /\ calls[2] = CloseQuickOpenCall

\* C6: with the modal enabled, a Tab keydown calls closeQuickOpen exactly
\* once, calls nothing else and leaves results and selectedIndex as they were.
C6_TabCloses ==
    [][(pc = "idle" /\ IsKey(last', {"Tab"}))
          => /\ calls' = <<CloseQuickOpenCall>>
             /\ results' = results
             /\ selectedIndex' = selectedIndex]_vars

\* C6 witness: a Tab closed an enabled modal that showed results.
C6_Witness ==
    /\ IsKey(last, {"Tab"})
    /\ last.count > 0
    /\ last.searchType = "sources"
    /\ calls = <<CloseQuickOpenCall>>
    /\ ~enabled

\* The result item an Enter or a click confirms
Confirms(e) == IsKey(e, {"Enter"}) \/ e.op = "selectItem"
Confirmed(e) ==
    IF e.op = "selectItem" THEN ItemAt(results, e.arg) ELSE ItemAt(results, selectedIndex)

\* C7: confirming (Enter or click) a shortcut row whose id is "@", "#" or ":"
\* calls setQuickOpenQuery with that id and nothing else: the modal stays open.
C7_ShortcutReseeds ==
    [][(/\ pc = "idle"
        /\ searchType = "shortcuts"
        /\ Confirms(last')
        /\ Confirmed(last').def
        /\ Confirmed(last').item.id \in {"@", "#", ":"})
          => /\ calls' = <<SetQuickOpenQueryCall(<<Confirmed(last').item.id>>)>>
             /\ query' = <<Confirmed(last').item.id>>
             /\ enabled']_vars

\* C7 witness: Enter on the second shortcut row re-seeded the query to "#".
C7_Witness ==
    /\ IsKey(last, {"Enter"})
    /\ last.searchType = "shortcuts"
    /\ last.selectedIndex = 1
    /\ calls = <<SetQuickOpenQueryCall(<<"#">>)>>
    /\ query = <<"#">>
    /\ enabled

\* C8: confirming a result item calls selectLocation and then closeQuickOpen:
\* in symbol search with the selected source's id and the item's start line
\* (0 without a location), in sources mode with the item's id and line 0, in
\* goto-line-in-source with the item's id and the line and column of the query.
C8_ConfirmDispatch ==
    [][(/\ pc = "idle"
        /\ Confirms(last')
        /\ Confirmed(last').def
        /\ searchType \in {"functions", "variables", "sources", "gotoSource"})
          => LET item == Confirmed(last').item
                 parsed == parseLineColumn(query)
             IN  /\ Len(calls') = 2
                 /\ calls'[2] = CloseQuickOpenCall
                 /\ calls'[1][1] = "selectLocation"
                 /\ searchType \in {"functions", "variables"} =>
                        /\ calls'[1][2] = selectedSource.id
                        /\ calls'[1][3] = StartLine(item)
                 /\ searchType = "sources" =>
                        /\ calls'[1][2] = item.id
                        /\ calls'[1][3] = 0
                 /\ searchType = "gotoSource" =>
                        /\ calls'[1][2] = item.id
                        /\ calls'[1][3] = parsed.line
                        /\ calls'[1][4] = parsed.column]_vars

\* `list` holds, in the order of the sources list, exactly the sources whose
\* url is the url of a tab: the i-th source, when tabbed, sits at the position
\* that counts the tabbed sources up to it.
IsTabbedSources(list) ==
    LET urls == {tabs[t] : t \in 1..Len(tabs)}
        tabbed == {i \in 1..Len(sources) : sources[i].url \in urls}
    IN  /\ Len(list) = Cardinality(tabbed)
        /\ \A i \in tabbed : list[Cardinality({j \in tabbed : j <= i})] = sources[i]

\* C9: for an empty query outside goto-line mode, with at least one open tab,
\* the recomputed results are the sources whose url is a tab's, in sources
\* order, however many they are.
C9_TopSourcesByTabs ==
    (pc = "idle" /\ query = <<>> /\ searchType # "goto" /\ Len(tabs) > 0)
        => (~results.null /\ IsTabbedSources(results.items))

\* C9 witness: an edit emptied the query while more tabs than the cap were
\* open, the first tab being the last source's.
C9_Witness ==
    /\ pc = "idle"
    /\ query = <<>>
    /\ last.op = "onChange"
    /\ Len(tabs) > TopSourcesCap
    /\ tabs[1] = sources[Len(sources)].url
    /\ Len(results.items) > TopSourcesCap
    /\ results.items[1] = sources[1]

\* C10: for an empty query outside goto-line mode, with no open tab, the
\* recomputed results are the first min(100, n) of the n sources, in order.
C10_TopSourcesCapped ==
    (pc = "idle" /\ query = <<>> /\ searchType # "goto" /\ Len(tabs) = 0)
        => /\ ~results.null
           /\ Len(results.items) = Min(TopSourcesCap, Len(sources))
           /\ \A k \in 1..Len(results.items) : results.items[k] = sources[k]

\* C10 witness: an edit in sources mode emptied the query over more sources
\* than the cap, and the list stops at the cap.
C10_Witness ==
    /\ pc = "idle"
    /\ query = <<>>
    /\ last.op = "onChange"
    /\ last.searchType = "sources"
    /\ Len(tabs) = 0
    /\ Len(sources) > TopSourcesCap
    /\ Len(results.items) = TopSourcesCap

\* C11: once a query change to the bare sigil "@" has been processed (onChange
\* and the following componentDidUpdate), results is the whole functions list,
\* unfiltered; after a change to the bare sigil "#" it is the whole variables
\* list, whatever the mode and the query were before.
C11_BareSigilUnfiltered ==
    (pc = "idle" /\ last.op = "onChange")
        => /\ last.arg = <<"@">> => results = Results(symbols.functions)
           /\ last.arg = <<"#">> => results = Results(symbols.variables)

\* C11 witness: "@" was typed over a sources-mode query while the selected
\* source had symbols, and the three functions are listed.
C11_Witness ==
    /\ pc = "idle"
    /\ last.op = "onChange"
    /\ last.arg = <<"@">>
    /\ last.searchType = "sources"
    /\ last.query # <<>>
    /\ symbols = LoadedSymbols
    /\ ~results.null
    /\ Len(results.items) = 3

\* The calls of the last handler that are the named host callback
CallsOf(name) == {k \in 1..Len(calls) : calls[k][1] = name}

\* C12: once a query change has been processed while a source is selected, the
\* modal has emitted a side effect for a symbol: a highlightLineRange in
\* function-symbol mode, a selectLocation in variable-symbol mode (whenever
\* there is a symbol to emit it for); with no selected source it has emitted
\* neither.
C12_QueryChangeSideEffect ==
    (pc = "idle" /\ last.op = "onChange")
        => /\ (~selectedSource.isNull /\ searchType = "functions" /\ ~results.null
                /\ Len(results.items) > 0) => CallsOf("highlightLineRange") # {}
           /\ (~selectedSource.isNull /\ searchType = "variables" /\ ~results.null
                /\ Len(results.items) > 0) => CallsOf("selectLocation") # {}
           /\ selectedSource.isNull
                => CallsOf("highlightLineRange") \cup CallsOf("selectLocation") = {}

\* C12 (as the code has it): a query change emits setQuickOpenQuery with the
\* typed value and nothing else, in every mode and with or without a selected
\* source; a highlightLineRange is emitted by arrow keys only.
C12_QueryChangeEmitsQueryOnly ==
    /\ last.op = "onChange" => calls = <<SetQuickOpenQueryCall(last.arg)>>
    /\ CallsOf("highlightLineRange") # {} => IsKey(last, Arrows)

\* C12 witness: "@a" was typed with a selected source whose functions match,
\* and the only call made is setQuickOpenQuery("@a").
C12_Witness ==
    /\ pc = "idle"
    /\ last.op = "onChange"
    /\ last.arg = <<"@", "a">>
    /\ searchType = "functions"
    /\ ~selectedSource.isNull
    /\ Len(results.items) = 2
    /\ calls = <<SetQuickOpenQueryCall(<<"@", "a">>)>>

\* C13: a query change whose resulting mode is goto-line leaves results and
\* selectedIndex as they were, in onChange and in the componentDidUpdate that
\* follows it, also when the change enters goto-line mode from another mode.
C13_GotoChangeKeepsResults ==
    [][(last'.op = "onChange" /\ searchType' = "goto")
          => (results' = results /\ selectedIndex' = selectedIndex)]_vars

\* The operation names of the worker's contract
RegisteredOperations ==
    {"getClosestExpression", "findOutOfScopeLocations", "getSymbols", "getScopes",
     "clearSymbols", "clearScopes", "clearASTs", "hasSource", "setSource",
     "clearSources", "getVariablesInScope", "getNextStep", "getEmptyLines",
     "hasSyntaxError", "isReactComponent", "replaceOriginalVariableName"}

\* C14: the dispatch table registers exactly the 16 operation names of the
\* contract, each bound to the one handler imported under that name, so that
\* every reply to a message for a registered operation n carries the response
\* of handler n, and a message for any other name is answered by no handler.
C14_DispatchTable ==
    /\ Cardinality(RegisteredOperations) = 16
    /\ DOMAIN publicInterface = RegisteredOperations
    /\ \A n \in DOMAIN publicInterface :
          /\ Cardinality({d \in ImportDeclarations : d.local = n}) = 1
          /\ publicInterface[n].local = n
          /\ publicInterface[n].export \in {n, "default"}
    /\ \A k \in 1..Len(outbox) :
          /\ outbox[k].id = inbox[k].id
          /\ IF inbox[k].method \in RegisteredOperations
             THEN /\ ~outbox[k].error
                  /\ outbox[k].handler.local = inbox[k].method
             ELSE outbox[k].error

\* C14 witness: getScopes was asked for and answered by the default export of
\* ./getScopes, then an unregistered name was asked for and answered by an error.
C14_Witness ==
    /\ Len(outbox) = 2
    /\ inbox[1].method = "getScopes"
    /\ outbox[1] = Response(1, Import("getScopes", "./getScopes", "default"))
    /\ inbox[2].method = "getFunctions"
    /\ outbox[2].error

\* C15: once a query change or a disabled-to-enabled transition has been
\* processed (onChange with the props of before the change, then
\* componentDidUpdate with the new ones), in every mode but goto-line results
\* is the list updateResults computes from the current query, searchType,
\* sources, tabs and symbols: a list onChange computed under the stale mode
\* does not survive.
C15_ResultsFollowCurrentProps ==
    (pc = "idle" /\ last.op \in {"onChange", "openQuickOpen"} /\ searchType # "goto")
        => results = updateResults(Props, State, query).results

\* C15 witness: "@a" was typed in sources mode, so onChange searched the
\* sources for "@a"; the list is now the two functions that match "a".
C15_Witness ==
    /\ pc = "idle"
    /\ last.op = "onChange"
    /\ last.arg = <<"@", "a">>
    /\ last.searchType = "sources"
    /\ searchType = "functions"
    /\ onChange([Props EXCEPT !.searchType = "sources"], State, query).state.results
          = Results(<<>>)
    /\ Len(results.items) = 2
    /\ results = Results(filter(symbols.functions, <<"a">>))

\* C16: an ArrowUp/ArrowDown keydown emits at most one side effect, for the
\* newly selected item results[nextIndex]: in variables mode with a selected
\* source, selectLocation(selected source's id, the item's start line or 0,
\* column null); in functions mode with a selected source, highlightLineRange
\* (the item's start and end lines, the selected source's id); in every other
\* mode, or with no selected source, nothing. It never calls closeQuickOpen or
\* setQuickOpenQuery. (An arrow key changes no prop and no result, so the state
\* after it shows the list it traversed and the index it stored.)
C16_ArrowSideEffect ==
    (IsKey(last, Arrows) /\ enabled /\ ~results.null)
        => LET x == ItemAt(results, selectedIndex)
           IN  /\ Len(calls) <= 1
               /\ CallsOf("closeQuickOpen") \cup CallsOf("setQuickOpenQuery") = {}
               /\ IF selectedSource.isNull \/ searchType \notin {"functions", "variables"}
                  THEN calls = <<>>
                  ELSE IF searchType = "variables"
                  THEN calls = <<SelectLocationCall(selectedSource.id, StartLine(x.item),
                                                    Undef)>>
                  ELSE calls = <<HighlightLineRangeCall(x.item.location.start,
                                                        x.item.location.end,
                                                        selectedSource.id)>>

\* C17: no key handler dereferences an undefined result item: whenever Enter
\* forwards results[selectedIndex] to setModifier (shortcuts mode) or an arrow
\* key forwards results[nextIndex] to onSelectResultItem in symbol-search mode
\* with a selected source, that element exists, so no keydown ends in a
\* TypeError.
C17_NoUndefinedItem ==
    last.op = "onKeyDown" => CallsOf("TypeError") = {}

\* C18: state.selectedIndex is a non-negative integer in every reachable
\* state; arrow-key traversal never stores NaN, also over the empty list and
\* over null results in goto-line mode.
C18_IndexIsNatural ==
    selectedIndex \in Nat

\* C19: selectLocation is never invoked with the empty string as sourceId:
\* every confirm that navigates carries the id of the chosen item or of the
\* selected source, also when no source is selected.
C19_SourceIdNotEmpty ==
    \A k \in CallsOf("selectLocation") : calls[k][2] # ""

\* onChange's noSource, for the selected source of the current props
NoUsableSource == selectedSource.isNull \/ ~selectedSource.text

\* C20: in symbol-search mode with no selected source, or with one that has
\* no text, a query change stores the typed query through setQuickOpenQuery
\* and leaves results unchanged, in onChange and in the componentDidUpdate
\* that follows it.
C20_NoSourceKeepsResults ==
    [][(last'.op = "onChange" /\ last'.searchType \in {"functions", "variables"}
          /\ NoUsableSource)
          => (query' = last'.arg /\ results' = results)]_vars

\* C20 (as the code has it): in that situation onChange itself calls
\* setQuickOpenQuery with the typed query and leaves results unchanged; the
\* componentDidUpdate that follows recomputes results from the new query and
\* mode, as for any query change, unless the new mode is goto-line.
C20_NoSourceRecomputedOnUpdate ==
    [][(last'.op = "onChange" /\ last'.searchType \in {"functions", "variables"}
          /\ NoUsableSource)
          => IF pc = "idle"
             THEN /\ calls' = <<SetQuickOpenQueryCall(last'.arg)>>
                  /\ query' = last'.arg
                  /\ results' = results
                  /\ pc' = "update"
             ELSE /\ query' = last'.arg
                  /\ results' = IF searchType = "goto" THEN results
                                ELSE updateResults(Props, State, query).results]_vars

\* C20 witness: with no selected source, "a" was typed over a function-symbol
\* query that listed nothing; the two sources matching "a" are now listed.
C20_Witness ==
    /\ pc = "idle"
    /\ last.op = "onChange"
    /\ last.searchType = "functions"
    /\ last.count = 0
    /\ selectedSource.isNull
    /\ query = <<"a">>
    /\ calls = <<SetQuickOpenQueryCall(<<"a">>)>>
    /\ Len(results.items) = 2

====
